---- MODULE Spec2Model ----
(***************************************************************************)
(* Model of the price/battery optimization engine,                         *)
(* custom_components/battery_energy_trading/energy_optimizer.py.           *)
(*                                                                         *)
(* Units.  All arithmetic is exact integer or rational arithmetic:         *)
(*   time      one unit = 15 minutes (an hour is HOUR = 4 units); slot     *)
(*             timestamps, slot durations, max_hours and duration_hours    *)
(*             are counted in this unit;                                   *)
(*   energy    one unit = 0.01 kWh, so capacity_kwh * percent / 100 is     *)
(*             capacity * percent, a rate of r kW delivers 25 * r units    *)
(*             per time unit, and w Wh of solar are w / 10 units;          *)
(*   clock     the wall clock of the cache counts minutes.                 *)
(* Python's None is the empty tuple <<>>, an optional value v is <<v>>.    *)
(* A dict is a record/function with string keys; "k in d" is               *)
(* k \in DOMAIN d.  Rationals (prices, revenue, cost, durations) are       *)
(* normalised pairs <<numerator, denominator>>.                            *)
(***************************************************************************)
EXTENDS Integers, Sequences, FiniteSets, TLC

VARIABLES cache, now, last

vars == <<cache, now, last>>

---------------------------------------------------------------------------
(* Bounds of the model and program constants *)

NSlots == 3

MaxClock == 6

CACHE_TTL == 5

HOUR == 4

UNITS_PER_KW == 25

WH_PER_UNIT == 10

DEFAULT_SLOT_DURATION == 1

None == <<>>

Some(v) == <<v>>

IsNone(x) == x = <<>>

Val(x) == x[1]

---------------------------------------------------------------------------
(* Exact rationals *)

Abs(n) == IF n < 0 THEN -n ELSE n

RECURSIVE Gcd(_, _)
Gcd(a, b) == IF b = 0 THEN a ELSE Gcd(b, a % b)

Rat(n, d) ==
  LET g == Gcd(Abs(n), Abs(d))
      s == IF d < 0 THEN -1 ELSE 1
  IN  IF n = 0 THEN <<0, 1>> ELSE <<(s * n) \div g, (s * d) \div g>>

RInt(n) == <<n, 1>>

RAdd(x, y) == Rat(x[1] * y[2] + y[1] * x[2], x[2] * y[2])

RMul(x, y) == Rat(x[1] * y[1], x[2] * y[2])

RDiv(x, y) == Rat(x[1] * y[2], x[2] * y[1])

RLe(x, y) == x[1] * y[2] <= y[1] * x[2]

RLt(x, y) == x[1] * y[2] < y[1] * x[2]

RECURSIVE RSum(_)
RSum(s) == IF s = <<>> THEN RInt(0) ELSE RAdd(Head(s), RSum(Tail(s)))

RECURSIVE ISum(_)
ISum(s) == IF s = <<>> THEN 0 ELSE Head(s) + ISum(Tail(s))

Min(a, b) == IF a <= b THEN a ELSE b

Max(a, b) == IF a >= b THEN a ELSE b

---------------------------------------------------------------------------
(* Python's dict.get and list helpers *)

Get(d, k, default) == IF k \in DOMAIN d THEN d[k] ELSE default

Take(s, n) == SubSeq(s, 1, Min(n, Len(s)))

(* sorted(s, key=...) is stable: rank by key, ties by position *)
Rank(keys, i) ==
  1 + Cardinality({j \in 1..Len(keys) :
                     keys[j] < keys[i] \/ (keys[j] = keys[i] /\ j < i)})

Sorted(s, keys) ==
  [r \in 1..Len(s) |-> s[CHOOSE i \in 1..Len(s) : Rank(keys, i) = r]]

(* sorted(s, key=..., reverse=True) keeps equal keys in their order *)
SortedReverse(s, keys) == Sorted(s, [i \in 1..Len(keys) |-> -keys[i]])

---------------------------------------------------------------------------
(* EnergyOptimizer helpers *)

_validate_inputs_NoClamp(battery_capacity, battery_level, rate) ==
  <<battery_capacity, battery_level, rate>>

_validate_inputs(battery_capacity, battery_level, rate) ==
  <<Max(0, battery_capacity), Max(0, Min(100, battery_level)), Max(0, rate)>>

_calculate_slot_duration(raw_prices) ==
  IF Len(raw_prices) > 1
    THEN raw_prices[2].start - raw_prices[1].start
    ELSE DEFAULT_SLOT_DURATION

_merge_price_data_NoFilter(raw_today, raw_tomorrow) == raw_today \o raw_tomorrow

_merge_price_data(raw_today, raw_tomorrow) ==
  IF raw_tomorrow = <<>>
    THEN raw_today
    ELSE IF raw_today # <<>>
      THEN LET last_today_time == raw_today[Len(raw_today)].end
               NotBefore(slot) == slot.start >= last_today_time
           IN  raw_today \o SelectSeq(raw_tomorrow, NotBefore)
      ELSE raw_today \o raw_tomorrow

(* solar_forecast_data is None or <<wh_hours>>; wh_hours maps a timestamp  *)
(* to watt-hours.  The result maps each slot start to the estimated        *)
(* battery content (capacity * level percent, in energy units); the empty  *)
(* dict is <<>>.                                                           *)
RECURSIVE EstimateWalk(_, _, _, _)
EstimateWalk(price_slots, wh, battery_capacity, current) ==
  IF price_slots = <<>> THEN <<>>
  ELSE LET slot     == Head(price_slots)
           solar_wh == Get(wh, slot.start, 0)
           nxt      == IF solar_wh > 0
                         THEN Min(100 * battery_capacity,
                                  current + solar_wh \div WH_PER_UNIT)
                         ELSE current
       IN  <<nxt>> \o EstimateWalk(Tail(price_slots), wh, battery_capacity, nxt)

_estimate_solar_impact_Empty(price_slots, solar_forecast_data, battery_capacity, current_battery_level) ==
  <<>>

_estimate_solar_impact(price_slots, solar_forecast_data, battery_capacity, current_battery_level) ==
  IF IsNone(solar_forecast_data) \/ price_slots = <<>> THEN <<>>
  ELSE LET wh == Val(solar_forecast_data)
       IN  IF DOMAIN wh = {} THEN <<>>
           ELSE IF battery_capacity = 0
                  /\ \E i \in 1..Len(price_slots) :
                        Get(wh, price_slots[i].start, 0) > 0
             THEN <<>>
             ELSE LET walk   == EstimateWalk(price_slots, wh, battery_capacity,
                                    battery_capacity * current_battery_level)
                      starts == {price_slots[i].start : i \in 1..Len(price_slots)}
                      LastAt(t) == CHOOSE i \in 1..Len(price_slots) :
                                     /\ price_slots[i].start = t
                                     /\ \A j \in (i + 1)..Len(price_slots) :
                                           price_slots[j].start # t
                  IN  [t \in starts |-> walk[LastAt(t)]]

FloorHour(t) == (t \div HOUR) * HOUR

RECURSIVE SolarWalk(_, _, _)
SolarWalk(wh, current_hour, end_time) ==
  IF current_hour < end_time
    THEN Get(wh, current_hour, 0) + SolarWalk(wh, current_hour + HOUR, end_time)
    ELSE 0

_calculate_solar_between_slots(slot1, slot2, solar_forecast_data) ==
  IF IsNone(solar_forecast_data) THEN 0
  ELSE SolarWalk(Val(solar_forecast_data), FloorHour(slot1.end), slot2.start)
         \div WH_PER_UNIT

(* solar_kwh of iteration i of the loop of _project_battery_state *)
SolarBefore(time_sorted, i, solar_forecast_data) ==
  IF i > 1 /\ ~IsNone(solar_forecast_data)
    THEN _calculate_solar_between_slots(time_sorted[i - 1], time_sorted[i],
                                        solar_forecast_data)
    ELSE 0

(* if solar_kwh > 0: current_battery = min(current_battery + solar_kwh,    *)
(* battery_capacity_kwh)                                                   *)
Recharged_Uncapped(current_battery, solar_kwh, battery_capacity_kwh) == IF solar_kwh > 0 THEN current_battery + solar_kwh ELSE current_battery

Recharged(current_battery, solar_kwh, battery_capacity_kwh) ==
  IF solar_kwh > 0
    THEN Min(current_battery + solar_kwh, battery_capacity_kwh)
    ELSE current_battery

Serviceable_Strict(current_battery, energy_needed) ==
  current_battery > energy_needed

(* if current_battery >= energy_needed *)
Serviceable(current_battery, energy_needed) ==
  current_battery >= energy_needed

(* slot_copy of a feasible slot *)
FeasibleCopy(slot, current_battery, energy_needed) ==
  [k \in DOMAIN slot \cup
     {"battery_before", "battery_after", "feasible", "energy_kwh", "price"} |->
     CASE k = "battery_before" -> current_battery
       [] k = "battery_after"  -> current_battery - energy_needed
       [] k = "feasible"       -> TRUE
       [] k = "energy_kwh"     -> energy_needed
       [] k = "price"          ->
            IF "price" \in DOMAIN slot THEN slot.price ELSE slot.value
       [] OTHER                -> slot[k]]

(* The loop of _project_battery_state over time_sorted[i..] *)
RECURSIVE ProjectWalk(_, _, _, _, _, _)
ProjectWalk(time_sorted, i, current_battery, battery_capacity_kwh, energy_needed, solar_forecast_data) ==
  IF i > Len(time_sorted) THEN <<>>
  ELSE
    LET solar_kwh == SolarBefore(time_sorted, i, solar_forecast_data)
        charged   == Recharged(current_battery, solar_kwh, battery_capacity_kwh)
    IN  IF Serviceable(charged, energy_needed)
          THEN <<FeasibleCopy(time_sorted[i], charged, energy_needed)>> \o
               ProjectWalk(time_sorted, i + 1, charged - energy_needed,
                           battery_capacity_kwh, energy_needed,
                           solar_forecast_data)
          ELSE ProjectWalk(time_sorted, i + 1, charged, battery_capacity_kwh,
                           energy_needed, solar_forecast_data)

_project_battery_state(slots, initial_battery_kwh, battery_capacity_kwh, discharge_rate_kw, slot_duration_hours, solar_forecast_data) ==
  LET time_sorted == Sorted(slots, [i \in 1..Len(slots) |-> slots[i].start])
  IN  ProjectWalk(time_sorted, 1, initial_battery_kwh, battery_capacity_kwh,
                  discharge_rate_kw * UNITS_PER_KW * slot_duration_hours,
                  solar_forecast_data)

---------------------------------------------------------------------------
(* Slot Merger *)

Upd(d, k, v) == (k :> v) @@ d

SumOf(group, k) == RSum([i \in 1..Len(group) |-> Get(group[i], k, RInt(0))])

EnergyOf_SkipsFirst(group) ==
  ISum([i \in 1..(Len(group) - 1) |-> Get(group[i + 1], "energy_kwh", 0)])

EnergyOf(group) == ISum([i \in 1..Len(group) |-> Get(group[i], "energy_kwh", 0)])

MergeSingle_NoClamp(slot, min_battery_reserve_percent, battery_capacity_kwh) ==
  slot

(* battery_capacity_kwh is a number of kWh; None and 0 are both falsy and  *)
(* are both written 0.                                                     *)
MergeSingle(slot, min_battery_reserve_percent, battery_capacity_kwh) ==
  IF battery_capacity_kwh # 0 /\ "battery_after" \in DOMAIN slot
    THEN
      LET min_reserve_kwh  == battery_capacity_kwh * min_battery_reserve_percent
          battery_before   == Get(slot, "battery_before", 0)
          available_energy == Max(0, battery_before - min_reserve_kwh)
          reduction_ratio  == IF slot.energy_kwh > 0
                                THEN Rat(available_energy, slot.energy_kwh)
                                ELSE RInt(0)
      IN  IF slot.battery_after < min_reserve_kwh
             /\ available_energy < slot.energy_kwh
            THEN
              Upd(Upd(Upd(Upd(Upd(Upd(slot,
                "energy_kwh", available_energy),
                "revenue", RMul(Get(slot, "revenue", RInt(0)), reduction_ratio)),
                "cost", RMul(Get(slot, "cost", RInt(0)), reduction_ratio)),
                "duration_hours",
                   RMul(Get(slot, "duration_hours", RInt(0)), reduction_ratio)),
                "battery_after", min_reserve_kwh),
                "partial_discharge", TRUE)
            ELSE slot
    ELSE slot

MergeMany(group, min_battery_reserve_percent, battery_capacity_kwh) ==
  LET n              == Len(group)
      total_energy   == EnergyOf(group)
      total_revenue  == SumOf(group, "revenue")
      total_cost     == SumOf(group, "cost")
      total_duration == SumOf(group, "duration_hours")
      weighted_price ==
        IF total_energy > 0
          THEN RDiv(IF RLt(RInt(0), total_revenue) THEN total_revenue
                                                   ELSE total_cost,
                    RInt(total_energy))
          ELSE RDiv(SumOf(group, "price"), RInt(n))
      m0 == [start          |-> group[1].start,
             end            |-> group[n].end,
             price          |-> weighted_price,
             energy_kwh     |-> total_energy,
             duration_hours |-> total_duration,
             slot_count     |-> n]
      m1 == IF RLt(RInt(0), total_revenue) THEN Upd(m0, "revenue", total_revenue)
                                           ELSE m0
      m2 == IF RLt(RInt(0), total_cost) THEN Upd(m1, "cost", total_cost) ELSE m1
      m3 == IF "battery_before" \in DOMAIN group[1]
              THEN Upd(m2, "battery_before", group[1].battery_before)
              ELSE m2
      min_reserve_kwh  == battery_capacity_kwh * min_battery_reserve_percent
      available_energy == Max(0, group[1].battery_before - min_reserve_kwh)
      reduction_ratio  == IF total_energy > 0
                            THEN Rat(available_energy, total_energy)
                            ELSE RInt(0)
  IN  IF "battery_after" \in DOMAIN group[n]
        THEN
          IF /\ battery_capacity_kwh # 0
             /\ group[n].battery_after < min_reserve_kwh
             /\ available_energy < total_energy
            THEN
              Upd(Upd(Upd(Upd(Upd(Upd(m3,
                "energy_kwh", available_energy),
                "revenue", RMul(total_revenue, reduction_ratio)),
                "cost", RMul(total_cost, reduction_ratio)),
                "duration_hours", RMul(total_duration, reduction_ratio)),
                "partial_discharge", TRUE),
                "battery_after", min_reserve_kwh)
            ELSE Upd(m3, "battery_after", group[n].battery_after)
        ELSE m3

_merge_slot_group(group, min_battery_reserve_percent, battery_capacity_kwh) ==
  IF Len(group) = 1
    THEN MergeSingle(group[1], min_battery_reserve_percent, battery_capacity_kwh)
    ELSE MergeMany(group, min_battery_reserve_percent, battery_capacity_kwh)

(* The runs of sorted_slots in which each slot starts where the previous   *)
(* one ends, in order: the groups the loop hands to _merge_slot_group.     *)
RECURSIVE GroupWalk(_, _, _)
GroupWalk(sorted_slots, i, current_group) ==
  IF i > Len(sorted_slots) THEN <<current_group>>
  ELSE IF current_group[Len(current_group)].end = sorted_slots[i].start
    THEN GroupWalk(sorted_slots, i + 1, Append(current_group, sorted_slots[i]))
    ELSE <<current_group>> \o GroupWalk(sorted_slots, i + 1, <<sorted_slots[i]>>)

SlotGroups_Unsorted(slots) ==
  IF slots = <<>> THEN <<>> ELSE GroupWalk(slots, 2, <<slots[1]>>)

SlotGroups(slots) ==
  IF slots = <<>> THEN <<>>
  ELSE LET sorted_slots == Sorted(slots, [i \in 1..Len(slots) |-> slots[i].start])
       IN  GroupWalk(sorted_slots, 2, <<sorted_slots[1]>>)

_combine_consecutive_slots(slots, min_battery_reserve_percent, battery_capacity_kwh) ==
  LET groups == SlotGroups(slots)
  IN  [g \in 1..Len(groups) |->
         _merge_slot_group(groups[g], min_battery_reserve_percent,
                           battery_capacity_kwh)]

---------------------------------------------------------------------------
(* Slot Selector - Discharge *)

(* The record a projector slot becomes when it is selected *)
ProjectedSlot(slot, slot_duration_hours) ==
  [start          |-> slot.start,
   end            |-> slot.end,
   price          |-> RInt(slot.price),
   energy_kwh     |-> slot.energy_kwh,
   revenue        |-> RInt(slot.energy_kwh * slot.price),
   duration_hours |-> RInt(slot_duration_hours),
   battery_before |-> slot.battery_before,
   battery_after  |-> slot.battery_after]

RECURSIVE HoursWalk_NoLimit(_, _, _, _, _)
HoursWalk_NoLimit(price_sorted, i, total_hours, slot_duration_hours, max_hours) ==
  IF i > Len(price_sorted) THEN <<>>
  ELSE <<ProjectedSlot(price_sorted[i], slot_duration_hours)>> \o
       HoursWalk_NoLimit(price_sorted, i + 1, total_hours + slot_duration_hours,
                         slot_duration_hours, max_hours)

(* for slot in price_sorted: if total_hours + duration <= max_hours: ... *)
RECURSIVE HoursWalk(_, _, _, _, _)
HoursWalk(price_sorted, i, total_hours, slot_duration_hours, max_hours) ==
  IF i > Len(price_sorted) THEN <<>>
  ELSE IF total_hours + slot_duration_hours <= max_hours
    THEN <<ProjectedSlot(price_sorted[i], slot_duration_hours)>> \o
         HoursWalk(price_sorted, i + 1, total_hours + slot_duration_hours,
                   slot_duration_hours, max_hours)
    ELSE HoursWalk(price_sorted, i + 1, total_hours, slot_duration_hours,
                   max_hours)

(* for slot in sorted_slots[:num_slots]: ... of the legacy path *)
RECURSIVE LegacyWalk(_, _, _, _, _, _, _)
LegacyWalk(slots, i, total_energy_to_discharge, energy_per_slot, available_energy, solar_battery_estimates, slot_duration_hours) ==
  IF i > Len(slots) THEN <<>>
  ELSE
    LET slot == slots[i]
        slot_battery_level ==
          IF slot.start \in DOMAIN solar_battery_estimates
            THEN Some(solar_battery_estimates[slot.start]) ELSE None
        slot_available_energy ==
          IF IsNone(slot_battery_level) THEN available_energy
                                        ELSE Val(slot_battery_level)
        energy_this_slot ==
          Min(energy_per_slot, slot_available_energy - total_energy_to_discharge)
    IN  IF energy_this_slot > 0
          THEN <<[start          |-> slot.start,
                  end            |-> slot.end,
                  price          |-> RInt(slot.value),
                  energy_kwh     |-> energy_this_slot,
                  revenue        |-> RInt(energy_this_slot * slot.value),
                  duration_hours |-> RInt(slot_duration_hours),
                  estimated_battery_level |-> slot_battery_level]>> \o
               LegacyWalk(slots, i + 1,
                          total_energy_to_discharge + energy_this_slot,
                          energy_per_slot, available_energy,
                          solar_battery_estimates, slot_duration_hours)
          ELSE LegacyWalk(slots, i + 1, total_energy_to_discharge,
                          energy_per_slot, available_energy,
                          solar_battery_estimates, slot_duration_hours)

Profitable_Always(slot, min_sell_price) == TRUE

(* slot["value"] >= min_sell_price *)
Profitable(slot, min_sell_price) == slot.value >= min_sell_price

(* available_energy = battery_capacity * battery_level / 100 *)
AvailableEnergy_IgnoresLevel(battery_capacity, battery_level) ==
  battery_capacity * 100

AvailableEnergy(battery_capacity, battery_level) ==
  battery_capacity * battery_level

Early == [ret |-> <<>>, store |-> FALSE, path |-> "early",
          feasible |-> <<>>, selected |-> <<>>]

(* The body of select_discharge_slots after the cache lookup; the          *)
(* arguments are the validated ones.  ret is the value returned, store     *)
(* tells whether the call reaches _set_cached, feasible and selected are   *)
(* the projector's output and the list handed to the merger.               *)
DischargeBody(raw_prices, min_sell_price, battery_capacity, battery_level, discharge_rate, max_hours, raw_tomorrow, solar_forecast_data, multiday_enabled, min_battery_reserve_percent) ==
  LET all_prices == IF multiday_enabled /\ raw_tomorrow # <<>>
                      THEN _merge_price_data(raw_prices, raw_tomorrow)
                      ELSE raw_prices
      solar_battery_estimates ==
        IF ~IsNone(solar_forecast_data) /\ multiday_enabled
          THEN _estimate_solar_impact(all_prices, solar_forecast_data,
                                      battery_capacity, battery_level)
          ELSE <<>>
      available_energy    == AvailableEnergy(battery_capacity, battery_level)
      slot_duration_hours == _calculate_slot_duration(all_prices)
      energy_per_slot     == discharge_rate * UNITS_PER_KW * slot_duration_hours
      max_discharge_slots == available_energy \div energy_per_slot
      IsProfitable(slot)  == Profitable(slot, min_sell_price)
      profitable_slots    == SelectSeq(all_prices, IsProfitable)
      limited             == ~IsNone(max_hours) /\ Val(max_hours) > 0
      feasible_slots ==
        _project_battery_state(profitable_slots, available_energy,
                               100 * battery_capacity, discharge_rate,
                               slot_duration_hours, solar_forecast_data)
      price_sorted ==
        SortedReverse(feasible_slots,
                      [i \in 1..Len(feasible_slots) |-> feasible_slots[i].price])
      solar_selected ==
        IF limited
          THEN HoursWalk(price_sorted, 1, 0, slot_duration_hours, Val(max_hours))
          ELSE [i \in 1..Len(price_sorted) |->
                  ProjectedSlot(price_sorted[i], slot_duration_hours)]
      sorted_slots ==
        SortedReverse(profitable_slots,
                      [i \in 1..Len(profitable_slots) |-> profitable_slots[i].value])
      num_slots ==
        IF limited
          THEN Min(Min(Len(sorted_slots), max_discharge_slots),
                   Val(max_hours) \div slot_duration_hours)
          ELSE Min(Len(sorted_slots), max_discharge_slots)
      legacy_selected ==
        LegacyWalk(Take(sorted_slots, num_slots), 1, 0, energy_per_slot,
                   available_energy, solar_battery_estimates,
                   slot_duration_hours)
      Finish(path, feasible, selected_slots) ==
        [ret      |-> _combine_consecutive_slots(selected_slots,
                        min_battery_reserve_percent, battery_capacity),
         store    |-> TRUE,
         path     |-> path,
         feasible |-> feasible,
         selected |-> selected_slots]
  IN  IF raw_prices = <<>> THEN Early
      ELSE IF available_energy <= 0 THEN Early
      ELSE IF energy_per_slot <= 0 THEN Early
      ELSE IF max_discharge_slots = 0 /\ solar_battery_estimates = <<>> THEN Early
      ELSE IF profitable_slots = <<>> THEN Early
      ELSE IF ~IsNone(solar_forecast_data)
        THEN IF feasible_slots = <<>>
               THEN Early
               ELSE Finish("solar", feasible_slots, solar_selected)
        ELSE Finish("legacy", <<>>, legacy_selected)

---------------------------------------------------------------------------
(* Slot Selector - Charge *)

RECURSIVE ChargeWalk(_, _, _, _, _, _)
ChargeWalk(slots, i, total_energy_to_charge, energy_per_slot, needed_energy, slot_duration_hours) ==
  IF i > Len(slots) THEN <<>>
  ELSE
    LET slot == slots[i]
        energy_this_slot ==
          Min(energy_per_slot, needed_energy - total_energy_to_charge)
    IN  IF energy_this_slot > 0
          THEN <<[start          |-> slot.start,
                  end            |-> slot.end,
                  price          |-> RInt(slot.value),
                  energy_kwh     |-> energy_this_slot,
                  cost           |-> RInt(energy_this_slot * slot.value),
                  duration_hours |-> RInt(slot_duration_hours)]>> \o
               ChargeWalk(slots, i + 1, total_energy_to_charge + energy_this_slot,
                          energy_per_slot, needed_energy, slot_duration_hours)
          ELSE ChargeWalk(slots, i + 1, total_energy_to_charge, energy_per_slot,
                          needed_energy, slot_duration_hours)

SetMax(S) == CHOOSE x \in S : \A y \in S : y <= x

Economical_Always(slot, max_charge_price) == TRUE

(* slot["value"] <= max_charge_price *)
Economical(slot, max_charge_price) == slot.value <= max_charge_price

(* 0.001 kWh in energy units *)
MILLI_KWH == <<1, 10>>

(* int(n / d) truncates towards 0 *)
IntDiv(n, d) ==
  LET q == Abs(n) \div Abs(d)
  IN  IF (n < 0) # (d < 0) THEN -q ELSE q

(* select_charging_slots from "if needed_energy <= 0" on.  The energies    *)
(* are counted in the unit in which 0.001 kWh is milli_kwh.                *)
ChargingPlan(all_prices, max_charge_price, needed_energy, energy_per_slot, milli_kwh, slot_duration_hours, max_slots, battery_capacity) ==
  LET slots_needed ==
        IntDiv(milli_kwh[2] * needed_energy + milli_kwh[2] * energy_per_slot
                 - milli_kwh[1],
               milli_kwh[2] * energy_per_slot)
      IsEconomical(slot) == Economical(slot, max_charge_price)
      economical_slots   == SelectSeq(all_prices, IsEconomical)
      sorted_slots ==
        Sorted(economical_slots,
               [i \in 1..Len(economical_slots) |-> economical_slots[i].value])
      num_slots ==
        IF ~IsNone(max_slots) /\ Val(max_slots) # 0
          THEN Min(Min(Len(sorted_slots), slots_needed), Val(max_slots))
          ELSE Min(Len(sorted_slots), slots_needed)
      selected_slots ==
        ChargeWalk(Take(sorted_slots, num_slots), 1, 0, energy_per_slot,
                   needed_energy, slot_duration_hours)
  IN  IF needed_energy <= 0 THEN Early
      ELSE IF energy_per_slot <= 0 THEN Early
      ELSE IF economical_slots = <<>> THEN Early
      ELSE [ret      |-> _combine_consecutive_slots(selected_slots, 0,
                                                    battery_capacity),
            store    |-> TRUE,
            path     |-> "charge",
            feasible |-> <<>>,
            selected |-> selected_slots]

(* The body of select_charging_slots after the cache lookup; the           *)
(* arguments are the validated ones.                                       *)
ChargingBody(raw_prices, max_charge_price, battery_capacity, battery_level, target_level, charge_rate, max_slots, raw_tomorrow, solar_forecast_data, multiday_enabled) ==
  LET all_prices == IF multiday_enabled /\ raw_tomorrow # <<>>
                      THEN _merge_price_data(raw_prices, raw_tomorrow)
                      ELSE raw_prices
      solar_battery_estimates ==
        IF ~IsNone(solar_forecast_data) /\ multiday_enabled
          THEN _estimate_solar_impact(all_prices, solar_forecast_data,
                                      battery_capacity, battery_level)
          ELSE <<>>
      current_energy == battery_capacity * battery_level
      target_energy  == battery_capacity * target_level
      needed0        == Max(0, target_energy - current_energy)
      has_estimates  == solar_battery_estimates # <<>>
      max_solar      == SetMax({solar_battery_estimates[t] :
                                  t \in DOMAIN solar_battery_estimates})
      solar_reaches  ==
        IF battery_capacity = 0 THEN battery_level >= target_level
                                ELSE max_solar >= target_energy
      needed_energy  ==
        IF has_estimates
          THEN Max(0, needed0 - (max_solar - current_energy))
          ELSE needed0
      slot_duration_hours == _calculate_slot_duration(all_prices)
      energy_per_slot     == charge_rate * UNITS_PER_KW * slot_duration_hours
  IN  IF raw_prices = <<>> THEN Early
      ELSE IF has_estimates /\ solar_reaches THEN Early
      ELSE ChargingPlan(all_prices, max_charge_price, needed_energy,
                        energy_per_slot, MILLI_KWH, slot_duration_hours,
                        max_slots, battery_capacity)

(* select_charging_slots without tomorrow's prices and without a solar     *)
(* forecast, for levels that are no whole percent: battery_level and       *)
(* target_level are given in hundredths of a percent (validated, 0 to      *)
(* 10000) and the energies are counted in 0.0001 kWh.                      *)
FineChargingBody(raw_prices, max_charge_price, battery_capacity, battery_level, target_level, charge_rate, max_slots) ==
  LET current_energy == battery_capacity * battery_level
      target_energy  == battery_capacity * target_level
      needed_energy  == Max(0, target_energy - current_energy)
      slot_duration_hours == _calculate_slot_duration(raw_prices)
      energy_per_slot ==
        charge_rate * UNITS_PER_KW * 100 * slot_duration_hours
  IN  IF raw_prices = <<>> THEN Early
      ELSE ChargingPlan(raw_prices, max_charge_price, needed_energy,
                        energy_per_slot, <<100 * MILLI_KWH[1], MILLI_KWH[2]>>,
                        slot_duration_hours, max_slots, battery_capacity)

---------------------------------------------------------------------------
(* Arbitrage Finder.  Money is counted in energy units times price units;  *)
(* efficiency, prices and profits are rationals.                           *)

RSub(x, y) == RAdd(x, RMul(RInt(-1), y))

RECURSIVE Flatten(_)
Flatten(ss) == IF ss = <<>> THEN <<>> ELSE Head(ss) \o Flatten(Tail(ss))

(* opportunities.sort(key=profit, reverse=True): stable *)
SortedByProfit(opps) ==
  LET Before(j, i) == \/ RLt(opps[i].profit, opps[j].profit)
                      \/ (opps[j].profit = opps[i].profit /\ j < i)
      RankOf(i) == 1 + Cardinality({j \in 1..Len(opps) : Before(j, i)})
  IN  [r \in 1..Len(opps) |-> opps[CHOOSE i \in 1..Len(opps) : RankOf(i) = r]]

(* a raised exception in place of a returned value *)
Raised == [path |-> "raised", ret |-> <<>>]

Returned(v) == [path |-> "returned", ret |-> v]

Profit_NoLoss(discharge_price, energy_charged, efficiency, avg_charge_price) ==
  RSub(RMul(RInt(energy_charged), RInt(discharge_price)),
       RMul(RInt(energy_charged), avg_charge_price))

Profit_LossOnCharge(discharge_price, energy_charged, efficiency, avg_charge_price) ==
  RSub(RMul(RInt(energy_charged), RInt(discharge_price)),
       RMul(RMul(RInt(energy_charged), efficiency), avg_charge_price))

(* discharge_revenue - charge_cost *)
Profit(discharge_price, energy_charged, efficiency, avg_charge_price) ==
  RSub(RMul(RMul(RInt(energy_charged), efficiency), RInt(discharge_price)),
       RMul(RInt(energy_charged), avg_charge_price))

MeetsThreshold_Always(profit, min_profit_threshold) == TRUE

(* if profit >= min_profit_threshold *)
MeetsThreshold(profit, min_profit_threshold) ==
  RLe(min_profit_threshold, profit)

(* The dict appended for one charge window and one discharge slot;         *)
(* roi_percent is None where its division by charge_cost = 0 raises.       *)
Opportunity(raw_prices, charge_window, discharge_idx, battery_capacity, charge_energy_per_slot, efficiency) ==
  LET n == Len(charge_window)
      avg_charge_price ==
        RDiv(RInt(ISum([i \in 1..n |-> charge_window[i].value])), RInt(n))
      discharge_price   == raw_prices[discharge_idx].value
      energy_charged    == Min(battery_capacity, charge_energy_per_slot * n)
      energy_discharged == RMul(RInt(energy_charged), efficiency)
      charge_cost       == RMul(RInt(energy_charged), avg_charge_price)
      profit == Profit(discharge_price, energy_charged, efficiency,
                       avg_charge_price)
  IN  [charge_start    |-> charge_window[1].start,
       charge_end      |-> charge_window[n].end,
       charge_price    |-> avg_charge_price,
       discharge_start |-> raw_prices[discharge_idx].start,
       discharge_end   |-> raw_prices[discharge_idx].end,
       discharge_price |-> RInt(discharge_price),
       energy_kwh      |-> energy_discharged,
       profit          |-> profit,
       roi_percent     |-> IF charge_cost = RInt(0) THEN None
                           ELSE Some(RMul(RDiv(profit, charge_cost), RInt(100)))]

(* battery_capacity is counted in energy units here.  Indices count from   *)
(* 1: the window of charge_start_idx ends at index last_idx and the        *)
(* discharge slots start two indices later.                                *)
calculate_arbitrage_opportunities_body(raw_prices, battery_capacity, charge_rate, discharge_rate, efficiency, min_profit_threshold) ==
  LET slot_duration_hours    == _calculate_slot_duration(raw_prices)
      charge_energy_per_slot == charge_rate * UNITS_PER_KW * slot_duration_hours
      charge_slots_needed ==
        Max(1, IntDiv(battery_capacity, charge_energy_per_slot))
      LastIdx(charge_start_idx) ==
        Min(charge_start_idx + charge_slots_needed - 1, Len(raw_prices))
      Found(charge_start_idx) ==
        LET last_idx      == LastIdx(charge_start_idx)
            charge_window == SubSeq(raw_prices, charge_start_idx, last_idx)
            AtOrAbove(o)  == MeetsThreshold(o.profit, min_profit_threshold)
        IN  SelectSeq([k \in 1..Max(0, Len(raw_prices) - last_idx - 1) |->
                         Opportunity(raw_prices, charge_window, last_idx + 1 + k,
                                     battery_capacity, charge_energy_per_slot,
                                     efficiency)],
                      AtOrAbove)
      opportunities ==
        Flatten([charge_start_idx \in 1..(Len(raw_prices) - 2) |->
                   Found(charge_start_idx)])
  IN  IF Len(raw_prices) < 3 THEN Returned(<<>>)
      ELSE IF charge_energy_per_slot = 0 THEN Raised
      ELSE IF \E i \in 1..Len(opportunities) : IsNone(opportunities[i].roi_percent)
        THEN Raised
        ELSE Returned(SortedByProfit(
               [i \in 1..Len(opportunities) |->
                  [opportunities[i] EXCEPT !.roi_percent = Val(@)]]))

---------------------------------------------------------------------------
(* Current-Slot Matcher.  A datetime is [wall, tz]: the wall-clock reading *)
(* in time units and tzinfo, None for a naive datetime or the UTC offset   *)
(* in time units for an aware one.                                         *)

DateTime(wall, tz) == [wall |-> wall, tz |-> tz]

(* comparing a naive with an aware datetime raises TypeError *)
Comparable(a, b) == IsNone(a.tz) = IsNone(b.tz)

Instant(a) == IF IsNone(a.tz) THEN a.wall ELSE a.wall - Val(a.tz)

DtLe(a, b) == Instant(a) <= Instant(b)

DtLt_OrEqual(a, b) == Instant(a) <= Instant(b)

DtLt(a, b) == Instant(a) < Instant(b)

(* for slot in selected_slots: ... with the current_time the loop has      *)
(* reached slot i with                                                     *)
RECURSIVE MatchWalk(_, _, _)
MatchWalk(selected_slots, i, current_time) ==
  IF i > Len(selected_slots) THEN Returned(FALSE)
  ELSE
    LET start == selected_slots[i].start
        end   == selected_slots[i].end
        t     == IF IsNone(start.tz) /\ ~IsNone(current_time.tz)
                   THEN [current_time EXCEPT !.tz = None]
                   ELSE current_time
    IN  IF ~Comparable(start, t) THEN Raised
        ELSE IF ~DtLe(start, t) THEN MatchWalk(selected_slots, i + 1, t)
        ELSE IF ~Comparable(t, end) THEN Raised
        ELSE IF DtLt(t, end) THEN Returned(TRUE)
        ELSE MatchWalk(selected_slots, i + 1, t)

is_current_slot_selected_body(selected_slots, current_time) ==
  IF selected_slots = <<>> THEN Returned(FALSE)
  ELSE MatchWalk(selected_slots, 1, current_time)

---------------------------------------------------------------------------
(* Result Cache.  The cache maps a key to [time, result]; the key is the   *)
(* tuple of values _get_cache_key digests.                                 *)

_get_cache_key(method_name, args) == <<method_name, args>>

Without(c, keys) == [k \in DOMAIN c \ keys |-> c[k]]

_clean_expired_cache_Late(c, t) ==
  Without(c, {key \in DOMAIN c : t - c[key].time > CACHE_TTL})

_clean_expired_cache(c, t) ==
  Without(c, {key \in DOMAIN c : t - c[key].time >= CACHE_TTL})

(* t_clean and t_check are the two readings of the clock in one lookup;    *)
(* found is None or <<result>>, c is the cache the lookup leaves.          *)
_get_cached(c, cache_key, t_clean, t_check) ==
  LET cleaned == _clean_expired_cache(c, t_clean)
  IN  IF cache_key \in DOMAIN cleaned
        THEN IF t_check - cleaned[cache_key].time < CACHE_TTL
               THEN [found |-> Some(cleaned[cache_key].result), c |-> cleaned]
               ELSE [found |-> None, c |-> Without(cleaned, {cache_key})]
        ELSE [found |-> None, c |-> cleaned]

_set_cached_Dropped(c, cache_key, result, t) == c

_set_cached(c, cache_key, result, t) ==
  Upd(c, cache_key, [time |-> t, result |-> result])

---------------------------------------------------------------------------
(* Inputs *)

PriceValues == {1, 2, 3}

SlotDurations == {1, 2}

Series(vals, d) ==
  [i \in 1..Len(vals) |-> [start |-> (i - 1) * d, end |-> i * d, value |-> vals[i]]]

PriceSeries ==
  {Series(vals, d) :
     vals \in UNION {[1..n -> PriceValues] : n \in 0..NSlots}, d \in SlotDurations}

SolarHours == {0, HOUR}

SolarWh == {1500}

SolarForecasts ==
  {None} \cup {Some(wh) : wh \in UNION {[H -> SolarWh] : H \in SUBSET SolarHours}}

DischargeArgs ==
  [raw_prices                  : PriceSeries,
   min_sell_price              : {2, 3},
   battery_capacity            : {10},
   battery_level               : {0, 10, 20, 50, 100},
   discharge_rate              : {0, 4},
   max_hours                   : {None, Some(0), Some(1), Some(3)},
   raw_tomorrow                : {<<>>},
   solar_forecast_data         : SolarForecasts,
   multiday_enabled            : BOOLEAN,
   min_battery_reserve_percent : {0, 10, 25}]

ChargingArgs ==
  [raw_prices          : PriceSeries,
   max_charge_price    : {1, 2},
   battery_capacity    : {10},
   battery_level       : {10, 50},
   target_level        : {20, 50, 80},
   charge_rate         : {0, 4},
   max_slots           : {None, Some(0), Some(2)},
   raw_tomorrow        : {<<>>},
   solar_forecast_data : {None, Some((0 :> 1500))},
   multiday_enabled    : BOOLEAN]

---------------------------------------------------------------------------
(* State: the optimizer's cache, the wall clock, and a record of the last  *)
(* call (its arguments, what it returned and how).                         *)

NoCall ==
  [op |-> "init", args |-> <<>>, key |-> <<>>, hit |-> FALSE, ret |-> <<>>,
   store |-> FALSE, path |-> "none", feasible |-> <<>>, selected |-> <<>>,
   t_clean |-> 0, t_check |-> 0, t_store |-> 0, entry_time |-> None]

EmptyCache == [k \in {} |-> 0]

Init ==
  /\ cache = EmptyCache
  /\ now = 0
  /\ last = NoCall

(* EnergyOptimizer() *)
Construct ==
  /\ last.op # "init"
  /\ cache' = EmptyCache
  /\ last' = NoCall
  /\ UNCHANGED now

(* A cached call: look the key up, on a miss run the body and store what   *)
(* it returns if it reaches _set_cached.  d1 is the time that passes       *)
(* between the two clock readings of the lookup, d2 between the lookup     *)
(* and the store.  The callers keep the clock within MaxClock.             *)
CachedCall(op, a, cache_key, body, d1, d2) ==
  LET t_clean == now
      t_check == now + d1
      t_store == now + d1 + d2
      looked  == _get_cached(cache, cache_key, t_clean, t_check)
      hit     == ~IsNone(looked.found)
  IN  /\ now' = (IF hit THEN t_check ELSE t_store)
      /\ cache' = (IF hit \/ ~body.store
                     THEN looked.c
                     ELSE _set_cached(looked.c, cache_key, body.ret, t_store))
      /\ last' = [op |-> op, args |-> a, key |-> cache_key, hit |-> hit,
                  ret   |-> IF hit THEN Val(looked.found) ELSE body.ret,
                  store |-> ~hit /\ body.store,
                  path  |-> IF hit THEN "cached" ELSE body.path,
                  feasible |-> IF hit THEN <<>> ELSE body.feasible,
                  selected |-> IF hit THEN <<>> ELSE body.selected,
                  t_clean |-> t_clean, t_check |-> t_check, t_store |-> t_store,
                  entry_time |-> IF cache_key \in DOMAIN cache
                                   THEN Some(cache[cache_key].time) ELSE None]

DischargeResult(a) ==
  LET v == _validate_inputs(a.battery_capacity, a.battery_level, a.discharge_rate)
  IN  DischargeBody(a.raw_prices, a.min_sell_price, v[1], v[2], v[3],
                    a.max_hours, a.raw_tomorrow, a.solar_forecast_data,
                    a.multiday_enabled, a.min_battery_reserve_percent)

DischargeKey(a) ==
  LET v == _validate_inputs(a.battery_capacity, a.battery_level, a.discharge_rate)
  IN  _get_cache_key("select_discharge_slots",
                     <<Len(a.raw_prices), a.min_sell_price, v[1], v[2], v[3],
                       a.max_hours>>)

select_discharge_slots(a, d1, d2) ==
  /\ now + d1 + d2 <= MaxClock
  /\ CachedCall("select_discharge_slots", a, DischargeKey(a), DischargeResult(a),
                d1, d2)

ChargingResult(a) ==
  LET v == _validate_inputs(a.battery_capacity, a.battery_level, a.charge_rate)
      w == _validate_inputs(v[1], a.target_level, 0)
  IN  ChargingBody(a.raw_prices, a.max_charge_price, w[1], v[2], w[2], v[3],
                   a.max_slots, a.raw_tomorrow, a.solar_forecast_data,
                   a.multiday_enabled)

ChargingKey(a) ==
  LET v == _validate_inputs(a.battery_capacity, a.battery_level, a.charge_rate)
      w == _validate_inputs(v[1], a.target_level, 0)
  IN  _get_cache_key("select_charging_slots",
                     <<Len(a.raw_prices), a.max_charge_price, w[1], v[2], w[2],
                       v[3], a.max_slots>>)

select_charging_slots(a, d1, d2) ==
  /\ now + d1 + d2 <= MaxClock
  /\ CachedCall("select_charging_slots", a, ChargingKey(a), ChargingResult(a),
                d1, d2)

(* A fresh optimizer receives one call *)
Fresh == last.op = "init"

Next ==
  \/ Fresh /\ \E a \in DischargeArgs : select_discharge_slots(a, 0, 0)
  \/ Fresh /\ \E a \in ChargingArgs : select_charging_slots(a, 0, 0)
  \/ Construct

Spec == Init /\ [][Next]_vars

---------------------------------------------------------------------------
(* One optimizer, several calls, a clock that advances *)

CacheDischarge(raw_prices, max_hours) ==
  [raw_prices                  |-> raw_prices,
   min_sell_price              |-> 2,
   battery_capacity            |-> 10,
   battery_level               |-> 50,
   discharge_rate              |-> 4,
   max_hours                   |-> max_hours,
   raw_tomorrow                |-> <<>>,
   solar_forecast_data         |-> None,
   multiday_enabled            |-> FALSE,
   min_battery_reserve_percent |-> 25]

(* two series of one length, the empty series, and a max_hours shorter     *)
(* than one slot                                                           *)
CacheDischargeArgs ==
  {CacheDischarge(Series(<<3, 1, 2>>, 2), None),
   CacheDischarge(Series(<<1, 3, 3>>, 2), None),
   CacheDischarge(<<>>, None),
   CacheDischarge(Series(<<3, 1, 2>>, 2), Some(1))}

CacheCharging(target_level) ==
  [raw_prices          |-> Series(<<1, 2, 3>>, 2),
   max_charge_price    |-> 2,
   battery_capacity    |-> 10,
   battery_level       |-> 50,
   target_level        |-> target_level,
   charge_rate         |-> 4,
   max_slots           |-> None,
   raw_tomorrow        |-> <<>>,
   solar_forecast_data |-> None,
   multiday_enabled    |-> FALSE]

CacheChargingArgs == {CacheCharging(50), CacheCharging(80)}

Drift == {0, 1}

Tick ==
  /\ now < MaxClock
  /\ now' = now + 1
  /\ UNCHANGED <<cache, last>>

NextCache ==
  \/ \E a \in CacheDischargeArgs, d1, d2 \in Drift : select_discharge_slots(a, d1, d2)
  \/ \E a \in CacheChargingArgs, d1, d2 \in Drift : select_charging_slots(a, d1, d2)
  \/ Tick

SpecCache == Init /\ [][NextCache]_vars

---------------------------------------------------------------------------
(* A fresh optimizer receives one call whose arguments cover negative      *)
(* prices and scalars outside their ranges, or levels between two whole    *)
(* percents.                                                               *)

SignedValues == {-2, -1, 2}

SignedSeries ==
  {Series(vals, d) :
     vals \in UNION {[1..n -> SignedValues] : n \in 0..NSlots}, d \in SlotDurations}

WideDischargeArgs ==
  [raw_prices                  : SignedSeries,
   min_sell_price              : {-1, 1},
   battery_capacity            : {-10, 5, 10},
   battery_level               : {-5, 10, 50, 120},
   discharge_rate              : {-4, 0, 4},
   max_hours                   : {None, Some(1)},
   raw_tomorrow                : {<<>>},
   solar_forecast_data         : {None, Some((0 :> 1500))},
   multiday_enabled            : BOOLEAN,
   min_battery_reserve_percent : {25}]

WideChargingArgs ==
  [raw_prices          : SignedSeries,
   max_charge_price    : {-1, 1},
   battery_capacity    : {-10, 1, 10},
   battery_level       : {-5, 50, 120},
   target_level        : {-5, 50, 80, 120},
   charge_rate         : {-4, 0, 4},
   max_slots           : {None, Some(0), Some(1)},
   raw_tomorrow        : {<<>>},
   solar_forecast_data : {None, Some((0 :> 1500))},
   multiday_enabled    : BOOLEAN]

(* levels in hundredths of a percent *)
FineChargingArgs ==
  [raw_prices       : PriceSeries,
   max_charge_price : {1, 2},
   battery_capacity : {1},
   battery_level    : {5000},
   target_level     : {5000, 5005, 5010, 7500, 7505, 10000},
   charge_rate      : {1, 4},
   max_slots        : {None, Some(1)}]

FineChargingResult(a) ==
  FineChargingBody(a.raw_prices, a.max_charge_price, a.battery_capacity,
                   a.battery_level, a.target_level, a.charge_rate, a.max_slots)

FineChargingKey(a) ==
  _get_cache_key("select_charging_slots",
                 <<Len(a.raw_prices), a.max_charge_price, a.battery_capacity,
                   a.battery_level, a.target_level, a.charge_rate, a.max_slots>>)

select_charging_slots_fine(a) ==
  /\ now <= MaxClock
  /\ CachedCall("select_charging_slots_fine", a, FineChargingKey(a),
                FineChargingResult(a), 0, 0)

NextInputs ==
  \/ Fresh /\ \E a \in WideDischargeArgs : select_discharge_slots(a, 0, 0)
  \/ Fresh /\ \E a \in WideChargingArgs : select_charging_slots(a, 0, 0)
  \/ Fresh /\ \E a \in FineChargingArgs : select_charging_slots_fine(a)
  \/ Construct

SpecInputs == Init /\ [][NextInputs]_vars

---------------------------------------------------------------------------
(* The two utilities that do not touch the cache, called on a fresh        *)
(* optimizer.                                                              *)

ArbitrageValues == {-2, -1, 0, 2}

ArbitrageSeries ==
  {Series(vals, d) :
     vals \in UNION {[1..n -> ArbitrageValues] : n \in 0..(NSlots + 1)},
     d \in SlotDurations}

Efficiencies == {<<1, 2>>, <<1, 1>>}

ArbitrageArgs ==
  [raw_prices           : ArbitrageSeries,
   battery_capacity     : {0, 1, 2},
   charge_rate          : {-4, 0, 4},
   discharge_rate       : {4},
   efficiency           : Efficiencies,
   min_profit_threshold : {RInt(0), RInt(5), RInt(150)}]

ArbitrageResult(a) ==
  calculate_arbitrage_opportunities_body(a.raw_prices, 100 * a.battery_capacity,
      a.charge_rate, a.discharge_rate, a.efficiency, a.min_profit_threshold)

(* a call that neither reads nor writes the cache *)
Uncached(op, a, result) ==
  /\ last' = [NoCall EXCEPT !.op = op, !.args = a, !.ret = result.ret,
                            !.path = result.path,
                            !.t_clean = now, !.t_check = now, !.t_store = now]
  /\ UNCHANGED <<cache, now>>

calculate_arbitrage_opportunities(a) ==
  /\ now <= MaxClock
  /\ Uncached("calculate_arbitrage_opportunities", a, ArbitrageResult(a))

TimeZones == {None, Some(0), Some(1)}

MatcherSlots ==
  {[start |-> DateTime(2 * k, tz), end |-> DateTime(2 * k + 2, tz)] :
     k \in 0..1, tz \in TimeZones}

MatcherArgs ==
  [selected_slots : UNION {[1..n -> MatcherSlots] : n \in 0..NSlots},
   current_time   : {DateTime(w, tz) : w \in 0..5, tz \in TimeZones}]

MatcherResult(a) == is_current_slot_selected_body(a.selected_slots, a.current_time)

is_current_slot_selected(a) ==
  /\ now <= MaxClock
  /\ Uncached("is_current_slot_selected", a, MatcherResult(a))

NextTools ==
  \/ Fresh /\ \E a \in ArbitrageArgs : calculate_arbitrage_opportunities(a)
  \/ Fresh /\ \E a \in MatcherArgs : is_current_slot_selected(a)
  \/ Construct

SpecTools == Init /\ [][NextTools]_vars

---------------------------------------------------------------------------
(* _project_battery_state called on its own, one loop iteration at a time. *)
(* While it runs, last holds its locals: i is the index into time_sorted   *)
(* of the slot at hand, current_battery the running energy, solar_kwh the  *)
(* last solar credit computed, ret the feasible_slots collected so far.    *)
(* path is the position: "credit" before the solar credit of slot i,       *)
(* "check" before its feasibility test, "returned" after the return.       *)

(* positions of candidate slots on the timeline *)
Positions == 0..4

(* lists of n different slots of duration d, in any order *)
CandidateSlots(n, d) ==
  {[i \in 1..n |-> [start |-> f[i] * d, end |-> (f[i] + 1) * d, value |-> 1]] :
     f \in {g \in [1..n -> Positions] : \A x, y \in 1..n : x # y => g[x] # g[y]}}

ProjectorForecasts ==
  {None, Some(EmptyCache), Some((0 :> 1500)), Some((HOUR :> 500)),
   Some((0 :> 1500) @@ (HOUR :> 500))}

ProjectorArgs ==
  UNION {[slots                : CandidateSlots(n, d),
          initial_battery_kwh  : {0, 100, 250},
          battery_capacity_kwh : {250, 1000},
          discharge_rate_kw    : {-4, 0, 4},
          slot_duration_hours  : {d},
          solar_forecast_data  : ProjectorForecasts] :
           n \in 0..NSlots, d \in SlotDurations}

TimeSorted(slots) == Sorted(slots, [i \in 1..Len(slots) |-> slots[i].start])

Projecting(a, path, i, current_battery, solar_kwh, feasible_slots) ==
  [op |-> "_project_battery_state", args |-> a, path |-> path, i |-> i,
   current_battery |-> current_battery, solar_kwh |-> solar_kwh,
   ret |-> feasible_slots]

(* the call, up to the head of the loop *)
project_begin(a) ==
  /\ now <= MaxClock
  /\ last' = Projecting(a, "credit", 1, a.initial_battery_kwh, 0, <<>>)
  /\ UNCHANGED <<cache, now>>

InProjector(path) == last.op = "_project_battery_state" /\ last.path = path

(* lines 309-322: the solar credit before slot i *)
project_credit ==
  /\ InProjector("credit")
  /\ last.i <= Len(last.args.slots)
  /\ LET solar_kwh == SolarBefore(TimeSorted(last.args.slots), last.i,
                                  last.args.solar_forecast_data)
     IN  last' = Projecting(last.args, "check", last.i,
                            Recharged(last.current_battery, solar_kwh,
                                      last.args.battery_capacity_kwh),
                            solar_kwh, last.ret)
  /\ UNCHANGED <<cache, now>>

(* lines 324-353: the feasibility test of slot i *)
project_check ==
  /\ InProjector("check")
  /\ LET energy_needed == last.args.discharge_rate_kw * UNITS_PER_KW
                            * last.args.slot_duration_hours
         slot == TimeSorted(last.args.slots)[last.i]
     IN  last' =
           IF Serviceable(last.current_battery, energy_needed)
             THEN Projecting(last.args, "credit", last.i + 1,
                             last.current_battery - energy_needed,
                             last.solar_kwh,
                             Append(last.ret,
                                    FeasibleCopy(slot, last.current_battery,
                                                 energy_needed)))
             ELSE Projecting(last.args, "credit", last.i + 1,
                             last.current_battery, last.solar_kwh, last.ret)
  /\ UNCHANGED <<cache, now>>

(* line 355: return feasible_slots *)
project_return ==
  /\ InProjector("credit")
  /\ last.i > Len(last.args.slots)
  /\ last' = [last EXCEPT !.path = "returned"]
  /\ UNCHANGED <<cache, now>>

NextProjector ==
  \/ Fresh /\ \E a \in ProjectorArgs : project_begin(a)
  \/ project_credit
  \/ project_check
  \/ project_return
  \/ Construct

SpecProjector == Init /\ [][NextProjector]_vars

---------------------------------------------------------------------------
(* A fresh optimizer receives one call with tomorrow's prices: a series    *)
(* that starts one slot before today's series ends, where it ends, or one  *)
(* slot later.                                                             *)

DayValues == {1, 3}

TodaySeries ==
  {Series(vals, d) :
     vals \in UNION {[1..n -> DayValues] : n \in 0..NSlots}, d \in SlotDurations}

Shifted(series, t) ==
  [i \in 1..Len(series) |->
     [start |-> series[i].start + t, end |-> series[i].end + t,
      value |-> series[i].value]]

(* tomorrow's series for today's: up to two slots of today's duration *)
TomorrowSeries(today) ==
  LET d == _calculate_slot_duration(today)
  IN  {Shifted(Series(vals, d), (Len(today) + k) * d) :
         vals \in UNION {[1..n -> DayValues] : n \in 0..2}, k \in {-1, 0, 1}}

MultidayDischargeArgs ==
  UNION {[raw_prices                  : {today},
          min_sell_price              : {2},
          battery_capacity            : {10},
          battery_level               : {50, 100},
          discharge_rate              : {4},
          max_hours                   : {None},
          raw_tomorrow                : TomorrowSeries(today),
          solar_forecast_data         : {None, Some((0 :> 1500))},
          multiday_enabled            : BOOLEAN,
          min_battery_reserve_percent : {0, 25}] : today \in TodaySeries}

MultidayChargingArgs ==
  UNION {[raw_prices          : {today},
          max_charge_price    : {2},
          battery_capacity    : {10},
          battery_level       : {10, 50},
          target_level        : {80},
          charge_rate         : {4},
          max_slots           : {None, Some(2)},
          raw_tomorrow        : TomorrowSeries(today),
          solar_forecast_data : {None, Some((0 :> 1500))},
          multiday_enabled    : BOOLEAN] : today \in TodaySeries}

NextMultiday ==
  \/ Fresh /\ \E a \in MultidayDischargeArgs : select_discharge_slots(a, 0, 0)
  \/ Fresh /\ \E a \in MultidayChargingArgs : select_charging_slots(a, 0, 0)
  \/ Construct

SpecMultiday == Init /\ [][NextMultiday]_vars

---------------------------------------------------------------------------
(* _combine_consecutive_slots called on its own with selected slots in any *)
(* order: slots at different positions of the timeline, with the revenue   *)
(* of a discharge or the cost of a charge and, optionally, the battery     *)
(* bookkeeping of a projection that starts at first_before.                *)

MergerPrices == {-1, 0, 2}

SLOT_ENERGY == 100

(* the selected slot at position pos that rank slots of the list precede *)
SelectedSlot(pos, d, price, money, first_before, rank) ==
  LET energy == SLOT_ENERGY * d
      base   == [start          |-> pos * d,
                 end            |-> (pos + 1) * d,
                 price          |-> RInt(price),
                 energy_kwh     |-> energy,
                 duration_hours |-> RInt(d)]
      paid   == (money :> RInt(energy * price)) @@ base
  IN  IF IsNone(first_before) THEN paid
      ELSE [battery_before |-> Val(first_before) - rank * energy,
            battery_after  |-> Val(first_before) - (rank + 1) * energy] @@ paid

SelectedLists(n, d, money, first_before) ==
  {[i \in 1..n |->
      SelectedSlot(f[i], d, v[i], money, first_before,
                   Cardinality({j \in 1..n : f[j] < f[i]}))] :
     f \in {g \in [1..n -> Positions] : \A x, y \in 1..n : x # y => g[x] # g[y]},
     v \in [1..n -> MergerPrices]}

MergerArgs ==
  UNION {[slots                       : SelectedLists(n, d, money, first_before),
          min_battery_reserve_percent : {0, 25},
          battery_capacity_kwh        : {10}] :
           n \in 0..NSlots, d \in SlotDurations, money \in {"revenue", "cost"},
           first_before \in {None, Some(150), Some(300), Some(450)}}

MergerResult(a) ==
  Returned(_combine_consecutive_slots(a.slots, a.min_battery_reserve_percent,
                                      a.battery_capacity_kwh))

combine_consecutive_slots(a) ==
  /\ now <= MaxClock
  /\ Uncached("_combine_consecutive_slots", a, MergerResult(a))

NextMerger ==
  \/ Fresh /\ \E a \in MergerArgs : combine_consecutive_slots(a)
  \/ Construct

SpecMerger == Init /\ [][NextMerger]_vars

---------------------------------------------------------------------------
(* Properties *)

IsDischarge == last.op = "select_discharge_slots"

IsCharging == last.op = "select_charging_slots"

NoSolar == IsNone(last.args.solar_forecast_data)

Capacity == Max(0, last.args.battery_capacity)

Level == Max(0, Min(100, last.args.battery_level))

ReserveKwh == Capacity * last.args.min_battery_reserve_percent

HasBookkeeping(p) == "battery_after" \in DOMAIN p

IsMerged(p) == "slot_count" \in DOMAIN p

IsPartial(p) == "partial_discharge" \in DOMAIN p

SlotCount(p) == IF IsMerged(p) THEN p.slot_count ELSE 1

TotalEnergy(ret) == ISum([i \in 1..Len(ret) |-> ret[i].energy_kwh])

TotalSlots(ret) == ISum([i \in 1..Len(ret) |-> SlotCount(ret[i])])

TotalDuration(ret) == RSum([i \in 1..Len(ret) |-> ret[i].duration_hours])

(* C1: every period returned by select_discharge_slots that carries        *)
(* battery bookkeeping has battery_after >= capacity * reserve percent/100 *)
C1_ReserveInvariant ==
  IsDischarge =>
    \A i \in 1..Len(last.ret) :
      HasBookkeeping(last.ret[i]) => last.ret[i].battery_after >= ReserveKwh

(* a merged run that ended below the reserve was clamped to the reserve line *)
C1_Witness ==
  /\ IsDischarge
  /\ \E i \in 1..Len(last.ret) :
       /\ IsMerged(last.ret[i]) /\ IsPartial(last.ret[i])
       /\ last.ret[i].battery_after = ReserveKwh
       /\ last.ret[i].battery_before > ReserveKwh

(* C2: without a solar forecast the energy scheduled by                    *)
(* select_discharge_slots is at most max(0, available - reserve), so the   *)
(* battery is never scheduled below the reserve                            *)
C2_NeverBelowReserve ==
  (IsDischarge /\ NoSolar) =>
    TotalEnergy(last.ret) <= Max(0, Capacity * Level - ReserveKwh)

(* C3: without a solar forecast the discharge result is in non-increasing  *)
(* order of price and the charging result in non-decreasing order of price *)
C3_OrderedByPrice ==
  /\ (IsDischarge /\ NoSolar) =>
       \A i \in 1..(Len(last.ret) - 1) :
         RLe(last.ret[i + 1].price, last.ret[i].price)
  /\ (IsCharging /\ NoSolar) =>
       \A i \in 1..(Len(last.ret) - 1) :
         RLe(last.ret[i].price, last.ret[i + 1].price)

LevelsBelow == {l \in {0, 10, 20, 50, 100} : l <= last.args.battery_level}

AtLevel(l) == DischargeResult([last.args EXCEPT !.battery_level = l]).ret

(* C4: a call with a lower battery level, all else equal, selects no more  *)
(* slots and no more energy than the call made                             *)
C4_MonotoneInLevel ==
  IsDischarge =>
    \A l \in LevelsBelow :
      /\ TotalSlots(AtLevel(l)) <= TotalSlots(last.ret)
      /\ TotalEnergy(AtLevel(l)) <= TotalEnergy(last.ret)

(* C5: every slot the projector emits, and every returned period with      *)
(* battery bookkeeping that is not a merge of several slots, has           *)
(* battery_after = battery_before - energy_kwh                             *)
C5_SlotConservation ==
  IsDischarge =>
    /\ \A i \in 1..Len(last.feasible) :
         last.feasible[i].battery_after =
           last.feasible[i].battery_before - last.feasible[i].energy_kwh
    /\ \A i \in 1..Len(last.ret) :
         (HasBookkeeping(last.ret[i]) /\ ~IsMerged(last.ret[i])) =>
           last.ret[i].battery_after =
             last.ret[i].battery_before - last.ret[i].energy_kwh

(* C6: without a solar forecast the energy of the returned periods sums to *)
(* at most the available battery energy capacity * level / 100             *)
C6_EnergyBound ==
  (IsDischarge /\ NoSolar) => TotalEnergy(last.ret) <= Capacity * Level

(* the legacy path drained the whole battery over several periods *)
C6_Witness ==
  /\ IsDischarge /\ NoSolar
  /\ Len(last.ret) >= 2
  /\ TotalEnergy(last.ret) = Capacity * Level

GroupEnergy(group) == ISum([i \in 1..Len(group) |-> group[i].energy_kwh])

Runs == SlotGroups(last.selected)

(* C7 as stated: every merged period's energy_kwh is the sum of the        *)
(* energy_kwh of the slots it merges                                       *)
C7_MergeRoundTrip ==
  (IsDischarge \/ IsCharging) =>
    \A g \in 1..Len(last.ret) :
      IsMerged(last.ret[g]) => last.ret[g].energy_kwh = GroupEnergy(Runs[g])

(* C7 amended: a merged period's energy_kwh is the sum of the energy_kwh   *)
(* of its slots unless the reserve clamp was applied to it; a clamped      *)
(* period is flagged partial_discharge and its energy_kwh is               *)
(* max(0, battery_before - reserve), which is less than the sum            *)
C7_MergeRoundTripUnlessClamped ==
  (IsDischarge \/ IsCharging) =>
    /\ Len(last.ret) = Len(Runs)
    /\ \A g \in 1..Len(last.ret) :
         IsMerged(last.ret[g]) =>
           /\ last.ret[g].slot_count = Len(Runs[g])
           /\ ~IsPartial(last.ret[g]) =>
                last.ret[g].energy_kwh = GroupEnergy(Runs[g])
           /\ IsPartial(last.ret[g]) =>
                /\ last.ret[g].energy_kwh =
                     Max(0, last.ret[g].battery_before - ReserveKwh)
                /\ last.ret[g].energy_kwh < GroupEnergy(Runs[g])

(* a merged run was clamped *)
C7_Witness ==
  /\ IsDischarge
  /\ \E g \in 1..Len(last.ret) :
       /\ IsMerged(last.ret[g]) /\ IsPartial(last.ret[g])
       /\ last.ret[g].energy_kwh > 0

Called == last.op # "init"

InCache(k) == k \in DOMAIN cache

(* C8 as stated: every cache miss ends with an entry for its key stored    *)
(* with the current timestamp                                              *)
C8_EveryMissStores ==
  (Called /\ ~last.hit) =>
    InCache(last.key) /\ cache[last.key].time = last.t_store

(* C8 amended: a call is served from the cache exactly when an entry for   *)
(* its key is younger than the TTL, and then returns the stored result and *)
(* leaves the entry as it was; a miss that reaches the merger stores its   *)
(* result with the current timestamp; a miss that leaves through one of    *)
(* the early "return []" exits stores nothing                              *)
C8_CacheIdempotence ==
  Called =>
    /\ last.hit = (~IsNone(last.entry_time)
                     /\ last.t_check - Val(last.entry_time) < CACHE_TTL)
    /\ last.hit =>
         /\ InCache(last.key)
         /\ cache[last.key] = [time |-> Val(last.entry_time), result |-> last.ret]
    /\ (~last.hit /\ last.path # "early") =>
         /\ InCache(last.key)
         /\ cache[last.key] = [time |-> last.t_store, result |-> last.ret]
    /\ (~last.hit /\ last.path = "early") =>
         /\ ~InCache(last.key)
         /\ last.ret = <<>>

(* a second call returned a stored empty list from the cache *)
C8_Witness == Called /\ last.hit /\ last.ret = <<>> /\ now > Val(last.entry_time)

SlotDuration == _calculate_slot_duration(last.args.raw_prices)

Limited == ~IsNone(last.args.max_hours) /\ Val(last.args.max_hours) > 0

(* C10: with max_hours > 0 the slots selected number at most               *)
(* floor(max_hours / slot duration), so do the periods, and the            *)
(* duration_hours of the periods sum to at most max_hours                  *)
C10_MaxHoursBound ==
  (IsDischarge /\ Limited) =>
    /\ TotalSlots(last.ret) <= Val(last.args.max_hours) \div SlotDuration
    /\ Len(last.ret) <= Val(last.args.max_hours) \div SlotDuration
    /\ RLe(TotalDuration(last.ret), RInt(Val(last.args.max_hours)))

(* the projector found more feasible slots than max_hours admits *)
C10_Witness ==
  /\ IsDischarge /\ Limited
  /\ last.path = "solar"
  /\ Len(last.feasible) > TotalSlots(last.ret)
  /\ TotalSlots(last.ret) >= 1

(* the selected slot s is the input slot of the same start and end, at     *)
(* that slot's price                                                       *)
FromInput(s) ==
  \E k \in 1..Len(last.args.raw_prices) :
    /\ last.args.raw_prices[k].start = s.start
    /\ last.args.raw_prices[k].end = s.end
    /\ RInt(last.args.raw_prices[k].value) = s.price

Spans(p, run) == p.start = run[1].start /\ p.end = run[Len(run)].end

(* C11: every period select_discharge_slots returns spans a run of input   *)
(* slots of value >= min_sell_price and its price is >= min_sell_price;    *)
(* every period select_charging_slots returns spans a run of input slots   *)
(* of value <= max_charge_price and its price is <= max_charge_price       *)
C11_PriceThreshold ==
  /\ IsDischarge =>
       /\ Len(last.ret) = Len(Runs)
       /\ \A g \in 1..Len(last.ret) :
            /\ Spans(last.ret[g], Runs[g])
            /\ RLe(RInt(last.args.min_sell_price), last.ret[g].price)
            /\ \A i \in 1..Len(Runs[g]) :
                 /\ FromInput(Runs[g][i])
                 /\ RLe(RInt(last.args.min_sell_price), Runs[g][i].price)
  /\ IsCharging =>
       /\ Len(last.ret) = Len(Runs)
       /\ \A g \in 1..Len(last.ret) :
            /\ Spans(last.ret[g], Runs[g])
            /\ RLe(last.ret[g].price, RInt(last.args.max_charge_price))
            /\ \A i \in 1..Len(Runs[g]) :
                 /\ FromInput(Runs[g][i])
                 /\ RLe(Runs[g][i].price, RInt(last.args.max_charge_price))

(* a merged discharge period holds a slot of negative price *)
C11_Witness ==
  /\ IsDischarge
  /\ \E g \in 1..Len(last.ret) :
       /\ IsMerged(last.ret[g])
       /\ \E i \in 1..Len(Runs[g]) : RLt(Runs[g][i].price, RInt(0))

AllPrices ==
  IF last.args.multiday_enabled /\ last.args.raw_tomorrow # <<>>
    THEN _merge_price_data(last.args.raw_prices, last.args.raw_tomorrow)
    ELSE last.args.raw_prices

SolarEstimates ==
  IF ~IsNone(last.args.solar_forecast_data) /\ last.args.multiday_enabled
    THEN _estimate_solar_impact(AllPrices, last.args.solar_forecast_data,
                                Capacity, Level)
    ELSE <<>>

DischargePerSlot ==
  Max(0, last.args.discharge_rate) * UNITS_PER_KW
    * _calculate_slot_duration(AllPrices)

NoneProfitable ==
  \A i \in 1..Len(AllPrices) : AllPrices[i].value < last.args.min_sell_price

(* C12: select_discharge_slots returns the empty list when the price       *)
(* series is empty, or no slot has value >= min_sell_price, or the         *)
(* available energy capacity * level / 100 is <= 0, or the energy per slot *)
(* rate * slot duration is <= 0, or there are no solar estimates and the   *)
(* available energy is less than the energy of one slot                    *)
C12_NothingToDischarge ==
  IsDischarge =>
    ((\/ last.args.raw_prices = <<>>
      \/ NoneProfitable
      \/ Capacity * Level <= 0
      \/ DischargePerSlot <= 0
      \/ (SolarEstimates = <<>> /\ Capacity * Level < DischargePerSlot))
       => last.ret = <<>>)

(* a charged battery that holds less than one slot's energy, with          *)
(* profitable slots and no solar estimates                                 *)
C12_Witness ==
  /\ IsDischarge
  /\ ~NoneProfitable
  /\ Capacity * Level > 0
  /\ SolarEstimates = <<>>
  /\ Capacity * Level < DischargePerSlot
  /\ last.ret = <<>>

Within(x, lo, hi) == IF x < lo THEN lo ELSE IF x > hi THEN hi ELSE x

NonNegative(x) == IF x < 0 THEN 0 ELSE x

ClampedDischargeArgs ==
  [last.args EXCEPT !.battery_capacity = NonNegative(@),
                    !.battery_level    = Within(@, 0, 100),
                    !.discharge_rate   = NonNegative(@)]

ClampedChargingArgs ==
  [last.args EXCEPT !.battery_capacity = NonNegative(@),
                    !.battery_level    = Within(@, 0, 100),
                    !.target_level     = Within(@, 0, 100),
                    !.charge_rate      = NonNegative(@)]

(* C13: select_discharge_slots and select_charging_slots return what they  *)
(* return for the same call with battery_level and target_level brought    *)
(* into 0..100 and a negative capacity or rate replaced by 0               *)
C13_InputClamping ==
  /\ IsDischarge => last.ret = DischargeResult(ClampedDischargeArgs).ret
  /\ IsCharging => last.ret = ChargingResult(ClampedChargingArgs).ret

(* a level above 100 discharged like a full battery *)
C13_Witness ==
  /\ IsDischarge
  /\ last.args.battery_level > 100
  /\ last.ret # <<>>
  /\ TotalEnergy(last.ret) < last.args.battery_capacity * last.args.battery_level

IsFineCharging == last.op = "select_charging_slots_fine"

TargetLevel == Within(last.args.target_level, 0, 100)

ChargePrices == IF IsFineCharging THEN last.args.raw_prices ELSE AllPrices

(* capacity * (target_level - battery_level) / 100, less the solar credit  *)
NeededEnergy ==
  IF IsFineCharging
    THEN NonNegative(last.args.battery_capacity
                       * (last.args.target_level - last.args.battery_level))
    ELSE LET needed0 == NonNegative(Capacity * TargetLevel - Capacity * Level)
             credit  == IF SolarEstimates = <<>> THEN 0
                        ELSE SetMax({SolarEstimates[t] : t \in DOMAIN SolarEstimates})
                               - Capacity * Level
         IN  NonNegative(needed0 - credit)

ChargePerSlot ==
  IF IsFineCharging
    THEN last.args.charge_rate * UNITS_PER_KW * 100
           * _calculate_slot_duration(ChargePrices)
    ELSE NonNegative(last.args.charge_rate) * UNITS_PER_KW
           * _calculate_slot_duration(ChargePrices)

CheapSlots ==
  Cardinality({i \in 1..Len(ChargePrices) :
                 ChargePrices[i].value <= last.args.max_charge_price})

NoSlotBound == IsNone(last.args.max_slots) \/ Val(last.args.max_slots) = 0

Ceil(n, d) == (n + d - 1) \div d

(* C14: the energy_kwh of the periods select_charging_slots returns sum to *)
(* at most the needed energy, and to exactly the needed energy, over at    *)
(* least ceil(needed / energy_per_slot) slots, when that many slots have   *)
(* value <= max_charge_price and no max_slots bound applies                *)
C14_ChargeTarget ==
  (IsCharging \/ IsFineCharging) =>
    /\ TotalEnergy(last.ret) <= NeededEnergy
    /\ (/\ NeededEnergy > 0
        /\ ChargePerSlot > 0
        /\ NoSlotBound
        /\ CheapSlots >= Ceil(NeededEnergy, ChargePerSlot))
         => /\ TotalEnergy(last.ret) = NeededEnergy
            /\ TotalSlots(last.ret) >= Ceil(NeededEnergy, ChargePerSlot)

NoneEconomical ==
  \A i \in 1..Len(AllPrices) : AllPrices[i].value > last.args.max_charge_price

(* the forecast energy of the hours in which a slot starts *)
SolarAtSlots ==
  LET wh == Val(last.args.solar_forecast_data)
  IN  ISum([i \in 1..Len(AllPrices) |->
              IF Get(wh, AllPrices[i].start, 0) > 0
                THEN Get(wh, AllPrices[i].start, 0) \div WH_PER_UNIT
                ELSE 0])

(* the highest battery level estimated from solar alone is at or above the *)
(* target                                                                  *)
SolarReachesTarget ==
  /\ ~IsNone(last.args.solar_forecast_data)
  /\ last.args.multiday_enabled
  /\ Capacity > 0
  /\ SolarAtSlots > 0
  /\ Min(100 * Capacity, Capacity * Level + SolarAtSlots)
       >= Capacity * TargetLevel

(* C15: select_charging_slots returns the empty list when                  *)
(* battery_level >= target_level, or no slot has value <=                  *)
(* max_charge_price, or a solar forecast is present, multi-day is enabled  *)
(* and the highest solar-estimated battery level reaches target_level      *)
C15_NothingToCharge ==
  IsCharging =>
    ((Level >= TargetLevel \/ NoneEconomical \/ SolarReachesTarget)
       => last.ret = <<>>)

(* solar alone lifts a battery below its target to the target while cheap  *)
(* slots are on offer                                                      *)
C15_Witness ==
  /\ IsCharging
  /\ SolarReachesTarget
  /\ Level < TargetLevel
  /\ ~NoneEconomical
  /\ last.args.charge_rate > 0
  /\ last.ret = <<>>

(* ---- the arbitrage finder ---- *)

IsArbitrage == last.op = "calculate_arbitrage_opportunities"

ArbitragePrices == last.args.raw_prices

(* energy one slot charges, in energy units *)
ArbitragePerSlot ==
  last.args.charge_rate * UNITS_PER_KW
    * (ArbitragePrices[2].start - ArbitragePrices[1].start)

ArbitrageCapacity == 100 * last.args.battery_capacity

(* the number of slots that fill the battery: the whole number of times    *)
(* the energy of one slot goes into the capacity, at least one and no more *)
(* than the series has                                                     *)
WindowSlots ==
  LET fits == {n \in 1..Len(ArbitragePrices) :
                 /\ (ArbitrageCapacity < 0) = (ArbitragePerSlot < 0)
                 /\ n * Abs(ArbitragePerSlot) <= Abs(ArbitrageCapacity)}
  IN  IF fits = {} THEN 1 ELSE SetMax(fits)

WindowEnd(i) == Min(i + WindowSlots - 1, Len(ArbitragePrices))

WindowAverage(i) ==
  RDiv(RInt(ISum([k \in 1..(WindowEnd(i) - i + 1) |->
                    ArbitragePrices[i + k - 1].value])),
       RInt(WindowEnd(i) - i + 1))

EnergyCharged(i) ==
  Min(ArbitrageCapacity, ArbitragePerSlot * (WindowEnd(i) - i + 1))

(* discharge_price * energy_charged * efficiency                           *)
(*   - avg_charge_price * energy_charged                                   *)
PairProfit(i, j) ==
  RSub(RMul(RMul(RInt(ArbitragePrices[j].value), RInt(EnergyCharged(i))),
            last.args.efficiency),
       RMul(WindowAverage(i), RInt(EnergyCharged(i))))

(* a charge window starting at slot i with a slot j that starts strictly   *)
(* after the window ends                                                   *)
ArbitragePairs ==
  {p \in (1..(Len(ArbitragePrices) - 2)) \X (1..Len(ArbitragePrices)) :
     ArbitragePrices[p[2]].start > ArbitragePrices[WindowEnd(p[1])].end}

QualifyingPairs ==
  {p \in ArbitragePairs :
     RLe(last.args.min_profit_threshold, PairProfit(p[1], p[2]))}

IsPair(o, p) ==
  /\ o.charge_start = ArbitragePrices[p[1]].start
  /\ o.charge_end = ArbitragePrices[WindowEnd(p[1])].end
  /\ o.charge_price = WindowAverage(p[1])
  /\ o.discharge_start = ArbitragePrices[p[2]].start
  /\ o.discharge_end = ArbitragePrices[p[2]].end
  /\ o.discharge_price = RInt(ArbitragePrices[p[2]].value)
  /\ o.profit = PairProfit(p[1], p[2])

(* C16: every opportunity calculate_arbitrage_opportunities returns pairs  *)
(* a contiguous charge window with one slot that starts strictly after the *)
(* window ends, carries profit = discharge_price * energy_charged *        *)
(* efficiency - avg_charge_price * energy_charged with profit at or above  *)
(* min_profit_threshold; every such pair at or above the threshold is      *)
(* returned, once; and the list is in non-increasing order of profit.      *)
C16_ArbitrageContract ==
  (IsArbitrage /\ last.path = "returned") =>
    /\ \A k \in 1..Len(last.ret) :
         /\ last.ret[k].discharge_start > last.ret[k].charge_end
         /\ RLe(last.args.min_profit_threshold, last.ret[k].profit)
         /\ \E p \in QualifyingPairs : IsPair(last.ret[k], p)
    /\ \A p \in QualifyingPairs :
         \E k \in 1..Len(last.ret) : IsPair(last.ret[k], p)
    /\ Len(last.ret) = Cardinality(QualifyingPairs)
    /\ \A k \in 1..(Len(last.ret) - 1) :
         RLe(last.ret[k + 1].profit, last.ret[k].profit)

(* a call with a lossy battery that returns opportunities of different     *)
(* profit, in an order other than the scan's, and leaves a pair out        *)
C16_Witness ==
  /\ IsArbitrage /\ last.path = "returned"
  /\ last.args.efficiency # RInt(1)
  /\ Len(last.ret) >= 2
  /\ last.ret[1].profit # last.ret[2].profit
  /\ last.ret[1].charge_start > last.ret[2].charge_start
  /\ Cardinality(ArbitragePairs) > Len(last.ret)

InUnitInterval(efficiency) == RLt(RInt(0), efficiency) /\ RLe(efficiency, RInt(1))

(* a returning call with an efficiency in (0, 1] and a positive threshold *)
PositiveThresholdCall ==
  /\ IsArbitrage /\ last.path = "returned"
  /\ InUnitInterval(last.args.efficiency)
  /\ RLt(RInt(0), last.args.min_profit_threshold)

(* C17 as stated: for every price series, prices negative or not, an       *)
(* efficiency in (0, 1] and min_profit_threshold > 0, every opportunity    *)
(* calculate_arbitrage_opportunities returns has                           *)
(* charge_price < discharge_price.                                         *)
C17_BuyLowSellHigh ==
  PositiveThresholdCall =>
    \A k \in 1..Len(last.ret) :
      RLt(last.ret[k].charge_price, last.ret[k].discharge_price)

(* C17 amended: with, in addition, a positive charge rate and a capacity   *)
(* that is not negative, every opportunity returned has                    *)
(* charge_price < discharge_price * efficiency, and so                     *)
(* charge_price < discharge_price wherever discharge_price >= 0.           *)
C17_BuyBelowNetSellPrice ==
  (PositiveThresholdCall /\ last.args.charge_rate > 0
                         /\ last.args.battery_capacity >= 0) =>
    \A k \in 1..Len(last.ret) :
      /\ RLt(last.ret[k].charge_price,
             RMul(last.ret[k].discharge_price, last.args.efficiency))
      /\ RLe(RInt(0), last.ret[k].discharge_price) =>
           RLt(last.ret[k].charge_price, last.ret[k].discharge_price)

(* an opportunity that sells at a negative price and one that sells at a   *)
(* positive price, returned by one such call                               *)
C17_Witness ==
  /\ PositiveThresholdCall
  /\ last.args.charge_rate > 0
  /\ last.args.battery_capacity >= 0
  /\ \E k \in 1..Len(last.ret) : RLt(last.ret[k].discharge_price, RInt(0))
  /\ \E k \in 1..Len(last.ret) : RLt(RInt(0), last.ret[k].discharge_price)

(* the same call with another efficiency *)
WithEfficiency(e) == ArbitrageResult([last.args EXCEPT !.efficiency = e])

HigherEfficiencies == {e \in Efficiencies : RLt(last.args.efficiency, e)}

NoNegativePrice ==
  \A i \in 1..Len(ArbitragePrices) : ArbitragePrices[i].value >= 0

IsMatcher == last.op = "is_current_slot_selected"

(* start <= t < end: on the wall clock for a naive slot, whose instant has *)
(* its timezone stripped, and on the time line for an aware slot and an    *)
(* aware instant                                                           *)
InSlot(slot, t) ==
  IF IsNone(slot.start.tz)
    THEN slot.start.wall <= t.wall /\ t.wall < slot.end.wall
    ELSE /\ ~IsNone(t.tz)
         /\ slot.start.wall - Val(slot.start.tz) <= t.wall - Val(t.tz)
         /\ t.wall - Val(t.tz) < slot.end.wall - Val(slot.end.tz)

(* C19: is_current_slot_selected(slots, t) returns true if and only if     *)
(* some slot of the list has start <= t < end, an instant equal to a       *)
(* slot's end being outside that slot; it returns false for an empty list. *)
C19_CurrentSlotMatcher ==
  (IsMatcher /\ last.path = "returned") =>
    /\ last.ret = \E i \in 1..Len(last.args.selected_slots) :
                     InSlot(last.args.selected_slots[i], last.args.current_time)
    /\ last.args.selected_slots = <<>> => last.ret = FALSE

(* an aware instant that is the end of one slot and inside the next one,   *)
(* the slots being in another timezone                                     *)
C19_Witness ==
  /\ IsMatcher /\ last.path = "returned"
  /\ last.ret = TRUE
  /\ ~IsNone(last.args.current_time.tz)
  /\ \E i \in 1..Len(last.args.selected_slots) :
       LET slot == last.args.selected_slots[i]
       IN  /\ ~IsNone(slot.end.tz)
           /\ slot.end.tz # last.args.current_time.tz
           /\ Instant(slot.end) = Instant(last.args.current_time)

(* ---- exceptions ---- *)

(* C20: select_discharge_slots, select_charging_slots,                     *)
(* calculate_arbitrage_opportunities and is_current_slot_selected return a *)
(* value and never raise, for every well-typed input: a charge or          *)
(* discharge rate of 0, a battery capacity of 0, a charge window whose     *)
(* average price is 0 and a naive instant checked against aware slots      *)
(* included.                                                               *)
C20_NoException ==
  last.op \in {"select_discharge_slots", "select_charging_slots",
               "calculate_arbitrage_opportunities",
               "is_current_slot_selected"} =>
    last.path # "raised"

(* ---- the projector on its own ---- *)

(* the loop, run to its end at once, returns what the stepwise run returns *)
ProjectorAgrees ==
  InProjector("returned") =>
    last.ret = _project_battery_state(last.args.slots,
                 last.args.initial_battery_kwh, last.args.battery_capacity_kwh,
                 last.args.discharge_rate_kw, last.args.slot_duration_hours,
                 last.args.solar_forecast_data)

(* rate * duration, in energy units *)
EnergyNeeded ==
  last.args.discharge_rate_kw * UNITS_PER_KW * last.args.slot_duration_hours

(* the candidate slot with exactly k - 1 candidates starting before it *)
KthByStart(k) ==
  CHOOSE slot \in {last.args.slots[j] : j \in 1..Len(last.args.slots)} :
    Cardinality({j \in 1..Len(last.args.slots) :
                   last.args.slots[j].start < slot.start}) = k - 1

StaysInProjector == last'.op = "_project_battery_state"

(* C21: _project_battery_state walks the candidate slots in order of start *)
(* time; a slot is emitted as feasible if and only if the running battery  *)
(* energy at that point is >= rate * duration, equality included; a        *)
(* feasible slot debits exactly rate * duration from the running energy,   *)
(* an infeasible slot leaves it unchanged and is never emitted later: the  *)
(* output grows only by the slot at hand, at its own test.                 *)
C21_SerialFeasibility ==
  [][/\ (InProjector("check") /\ StaysInProjector) =>
          /\ last'.i = last.i + 1
          /\ IF last.current_battery >= EnergyNeeded
               THEN /\ Len(last'.ret) = Len(last.ret) + 1
                    /\ SubSeq(last'.ret, 1, Len(last.ret)) = last.ret
                    /\ last'.ret[Len(last'.ret)].start = KthByStart(last.i).start
                    /\ last'.ret[Len(last'.ret)].end = KthByStart(last.i).end
                    /\ last'.ret[Len(last'.ret)].energy_kwh = EnergyNeeded
                    /\ last'.current_battery = last.current_battery - EnergyNeeded
               ELSE /\ last'.ret = last.ret
                    /\ last'.current_battery = last.current_battery
     /\ (InProjector("credit") /\ StaysInProjector) =>
          /\ last'.ret = last.ret
          /\ last'.i = last.i]_vars

(* a run given its slots out of time order that drops its earliest slot    *)
(* and emits a later one whose running energy is exactly rate * duration   *)
C21_Witness ==
  /\ InProjector("returned")
  /\ EnergyNeeded > 0
  /\ last.ret # <<>>
  /\ last.ret[1].start # KthByStart(1).start
  /\ last.args.slots[1].start # KthByStart(1).start
  /\ \E k \in 1..Len(last.ret) : last.ret[k].battery_before = EnergyNeeded

(* the forecast buckets, as a function from hour timestamps to Wh *)
Buckets ==
  IF IsNone(last.args.solar_forecast_data) THEN EmptyCache
  ELSE Val(last.args.solar_forecast_data)

(* the forecast of the hours h with lo <= h < hi, in energy units *)
ForecastBetween(lo, hi) ==
  LET hours == {h \in DOMAIN Buckets : lo <= h /\ h < hi}
      RECURSIVE SumOver(_)
      SumOver(H) == IF H = {} THEN 0
                    ELSE LET h == CHOOSE x \in H : TRUE
                         IN  Buckets[h] + SumOver(H \ {h})
  IN  SumOver(hours) \div WH_PER_UNIT

(* the credit due before the slot at hand: nothing before the first slot,  *)
(* else the buckets from the end of the previous candidate to its start    *)
CreditDue ==
  IF last.i = 1 THEN 0
  ELSE ForecastBetween(KthByStart(last.i - 1).end, KthByStart(last.i).start)

(* C22: before processing candidate slot i > 0, _project_battery_state     *)
(* adds to the running energy exactly the forecast buckets whose hour h    *)
(* has end(slot i-1) <= h < start(slot i), converted from Wh to kWh, and   *)
(* nothing else; the running energy after the addition is                  *)
(* min(previous + credit, capacity); nothing is credited before the first  *)
(* candidate slot.                                                         *)
C22_SolarCredit ==
  [][(InProjector("credit") /\ StaysInProjector
        /\ last.i <= Len(last.args.slots)) =>
       last'.current_battery =
         Min(last.current_battery + CreditDue, last.args.battery_capacity_kwh)]_vars

(* ---- the multi-day timeline ---- *)

Today == last.args.raw_prices

Tomorrow == last.args.raw_tomorrow

Merging == last.args.multiday_enabled /\ Tomorrow # <<>>

StartsAfterToday(slot) == slot.start >= Today[Len(Today)].end

(* today's slots followed by the tomorrow slots that start at or after the *)
(* end of today's last slot                                                *)
ExpectedTimeline == Today \o SelectSeq(Tomorrow, StartsAfterToday)

NoOverlap(timeline) ==
  \A i, j \in 1..Len(timeline) : i < j => timeline[i].end <= timeline[j].start

(* what the same call returns for the one series timeline *)
SelectedOn(timeline) ==
  LET a == [last.args EXCEPT !.raw_prices = timeline, !.raw_tomorrow = <<>>]
  IN  IF IsDischarge THEN DischargeResult(a).ret ELSE ChargingResult(a).ret

WithinToday(p) == Today[1].start <= p.start /\ p.end <= Today[Len(Today)].end

(* C23: with multiday_enabled and tomorrow's slots present the timeline    *)
(* used for selection is today's slots followed by exactly the tomorrow    *)
(* slots whose start is >= the end of today's last slot, so that no        *)
(* tomorrow slot overlaps today's series; with multiday_enabled false no   *)
(* slot of raw_tomorrow appears in the result of select_discharge_slots or *)
(* select_charging_slots.                                                  *)
C23_MultidayMerge ==
  ((IsDischarge \/ IsCharging) /\ Today # <<>>) =>
    IF Merging
      THEN /\ AllPrices = ExpectedTimeline
           /\ NoOverlap(AllPrices)
           /\ last.ret = SelectedOn(ExpectedTimeline)
      ELSE /\ last.ret = SelectedOn(Today)
           /\ \A g \in 1..Len(last.ret) : WithinToday(last.ret[g])

(* a merged timeline that leaves out a profitable tomorrow slot which      *)
(* overlaps today's last slot, and a result that reaches into tomorrow     *)
C23_Witness ==
  /\ IsDischarge /\ Today # <<>> /\ Merging
  /\ \E k \in 1..Len(Tomorrow) :
       /\ ~StartsAfterToday(Tomorrow[k])
       /\ Tomorrow[k].value >= last.args.min_sell_price
  /\ \E g \in 1..Len(last.ret) : last.ret[g].end > Today[Len(Today)].end

(* ---- the merger on its own ---- *)

IsMerger == last.op = "_combine_consecutive_slots"

MergerInput == last.args.slots

(* the input slots that period p covers *)
Covered(p) ==
  {j \in 1..Len(MergerInput) :
     p.start <= MergerInput[j].start /\ MergerInput[j].end <= p.end}

(* C24: for non-overlapping slots given in any order,                      *)
(* _combine_consecutive_slots returns periods in increasing start order,   *)
(* no two successive periods adjacent (end of one = start of the next),    *)
(* slots separated by a gap never merged (a period is covered by its slots *)
(* without a hole), each period spanning from the start of its first slot  *)
(* to the end of its last slot, and the slot_count values, 1 for an        *)
(* unmerged slot, summing to the number of input slots.                    *)
C24_MaximalRuns ==
  IsMerger =>
    /\ \A g \in 1..(Len(last.ret) - 1) :
         /\ last.ret[g].start < last.ret[g + 1].start
         /\ last.ret[g].end # last.ret[g + 1].start
    /\ \A g \in 1..Len(last.ret) :
         LET p == last.ret[g]
         IN  /\ Cardinality(Covered(p)) = SlotCount(p)
             /\ \E j \in Covered(p) : MergerInput[j].start = p.start
             /\ \E j \in Covered(p) : MergerInput[j].end = p.end
             /\ \A j \in Covered(p) :
                  \/ MergerInput[j].end = p.end
                  \/ \E k \in Covered(p) :
                       MergerInput[k].start = MergerInput[j].end
    /\ TotalSlots(last.ret) = Len(MergerInput)

(* slots given out of time order that make a merged period and, after a    *)
(* gap, another period                                                     *)
C24_Witness ==
  /\ IsMerger
  /\ Len(last.ret) >= 2
  /\ \E g \in 1..Len(last.ret) : IsMerged(last.ret[g])
  /\ MergerInput[1].start > MergerInput[Len(MergerInput)].start

(* "revenue" for discharge slots, "cost" for charging slots *)
MoneyKey == IF "cost" \in DOMAIN MergerInput[1] THEN "cost" ELSE "revenue"

MoneyOf(p) ==
  RSum([k \in 1..Cardinality(Covered(p)) |->
          LET j == CHOOSE x \in Covered(p) :
                     Cardinality({y \in Covered(p) : y < x}) = k - 1
          IN  MergerInput[j][MoneyKey]])

EnergyIn(p) ==
  ISum([k \in 1..Cardinality(Covered(p)) |->
          LET j == CHOOSE x \in Covered(p) :
                     Cardinality({y \in Covered(p) : y < x}) = k - 1
          IN  MergerInput[j].energy_kwh])

(* C25: for every group of two or more consecutive slots with total energy *)
(* > 0, the merged period's price is the sum of the slots' revenue (cost,  *)
(* for charging slots) divided by the sum of their energy_kwh, and the     *)
(* period carries the summed revenue or cost, whatever the prices,         *)
(* negative and zero ones included.  (Periods cut down to the reserve,     *)
(* whose revenue or cost is scaled, are left aside.)                       *)
C25_WeightedPrice ==
  IsMerger =>
    \A g \in 1..Len(last.ret) :
      LET p == last.ret[g]
      IN  (IsMerged(p) /\ EnergyIn(p) > 0 /\ ~IsPartial(p)) =>
            /\ p.price = RDiv(MoneyOf(p), RInt(EnergyIn(p)))
            /\ MoneyKey \in DOMAIN p
            /\ p[MoneyKey] = MoneyOf(p)

(* the covered slot of p that starts first, and the one that ends last *)
FirstOf(p) == MergerInput[CHOOSE j \in Covered(p) : MergerInput[j].start = p.start]

LastOf(p) == MergerInput[CHOOSE j \in Covered(p) : MergerInput[j].end = p.end]

DurationIn(p) == RInt((p.end - p.start))

MergerReserve ==
  last.args.battery_capacity_kwh * last.args.min_battery_reserve_percent

(* C26: whenever a run or single slot with battery bookkeeping would end   *)
(* with battery_after below reserve_kwh = capacity * reserve_percent /     *)
(* 100, the returned period has partial_discharge = true, battery_after =  *)
(* reserve_kwh and energy_kwh = battery_before - reserve_kwh, with revenue *)
(* or cost and duration_hours scaled by the same ratio; when battery_after *)
(* is not below the reserve the period is unchanged and keeps the          *)
(* battery_before of its first slot and the battery_after of its last.     *)
C26_ClampAtReserve ==
  IsMerger =>
    \A g \in 1..Len(last.ret) :
      LET p     == last.ret[g]
          ratio == Rat(p.energy_kwh, EnergyIn(p))
      IN  HasBookkeeping(p) =>
            /\ p.battery_before = FirstOf(p).battery_before
            /\ IF LastOf(p).battery_after < MergerReserve
                 THEN /\ IsPartial(p)
                      /\ p.battery_after = MergerReserve
                      /\ p.energy_kwh = p.battery_before - MergerReserve
                      /\ Get(p, MoneyKey, RInt(0)) = RMul(MoneyOf(p), ratio)
                      /\ p.duration_hours = RMul(DurationIn(p), ratio)
                 ELSE /\ ~IsPartial(p)
                      /\ p.battery_after = LastOf(p).battery_after
                      /\ p.energy_kwh = EnergyIn(p)
                      /\ p.duration_hours = DurationIn(p)

(* what an optimizer with an empty cache returns for the arguments of the  *)
(* last call                                                               *)
FreshValue ==
  IF IsDischarge THEN DischargeResult(last.args).ret
                 ELSE ChargingResult(last.args).ret

(* C27: for any sequence of select_discharge_slots / select_charging_slots *)
(* calls on one optimizer, each call returns the value that a fresh        *)
(* optimizer would compute from that call's own arguments, also when an    *)
(* earlier call within the TTL had the same number of price slots and the  *)
(* same battery scalars but different price values                         *)
C27_NeverStale == Called => last.ret = FreshValue

(* every bucket of the day's forecast, in energy units *)
AllBuckets == ForecastBetween(0, 24 * HOUR)

(* C28: during one run of _project_battery_state each hourly forecast      *)
(* bucket is credited to the running battery energy at most once, so the   *)
(* total energy_kwh of all feasible slots never exceeds the initial        *)
(* battery energy plus the sum of all forecast buckets, also when several  *)
(* candidate slots are adjacent within the same clock hour.                *)
C28_SolarCountedOnce ==
  last.op = "_project_battery_state" =>
    TotalEnergy(last.ret) <= last.args.initial_battery_kwh + AllBuckets

(* C29: every period returned by select_discharge_slots has energy_kwh > 0 *)
(* and end - start = duration_hours, so that the window in which           *)
(* is_current_slot_selected is true is the time in which the schedule      *)
(* discharges; this holds for periods flagged partial_discharge and for    *)
(* slots whose battery_before is already below the reserve.                *)
C29_WindowMatchesDischarge ==
  IsDischarge =>
    \A g \in 1..Len(last.ret) :
      /\ last.ret[g].energy_kwh > 0
      /\ last.ret[g].duration_hours = DurationIn(last.ret[g])

Physical ==
  /\ 0 <= last.current_battery
  /\ last.current_battery <= last.args.battery_capacity_kwh
  /\ \A k \in 1..Len(last.ret) :
       /\ 0 <= last.ret[k].battery_after
       /\ last.ret[k].battery_after <= last.ret[k].battery_before
       /\ last.ret[k].battery_before <= last.args.battery_capacity_kwh

====
